---- MODULE Spec2Model ----
(***************************************************************************)
(* The github block of i3status-rust (src/blocks/github.rs): the paginated *)
(* notification fetcher (Notifications), the fold of Github::update into   *)
(* per-reason counts, and the rendering of the counts into the widget.     *)
(***************************************************************************)
EXTENDS Integers, Sequences, FiniteSets, TLC

\* ------------------------------------------------------------- bounds
\* The largest number of pages of a remote page chain.
MaxPages == 2
\* The largest number of notifications of a remote page chain, all pages
\* together.
MaxItems == 3
\* The largest number of next() calls a free-running caller makes on one
\* sequence handle (specification SpecIter).
MaxCalls == 4
\* The largest number of segments of a Link header value (specification
\* SpecLinks).
MaxSegs == 3
\* The largest number of notifications of a page chain served to one of two
\* instances (specification SpecTwo).
MaxTwoItems == 1
\* The counts of the fold are u64; where a poll may go on for ever
\* (specification SpecLive) they are kept modulo CountModulus.
CountModulus == 4

\* ---------------------------------------------------------------- state
VARIABLES
    pc,         \* "start", "failed" (new returned an error), "idle",
                \* "folding" (in update), "pulling" (a handle under SpecIter)
    block,      \* the Github block: text, update_interval, gh, format
    it,         \* the Notifications handle of the poll
    aggregations, \* the accumulator of try_fold, then its result
    remote,     \* the page chain the remote serves during the poll
    results,    \* what the next() calls on the handle returned, in order
    requests,   \* the requests sent through the handle, in order
    ret,        \* what the last update() returned
    handed,     \* the map the last update() handed the template engine
    created,    \* what Github::new returned
    header,     \* a Link header value handed to extract_links (SpecLinks)
    parsed,     \* what extract_links returned for it (SpecLinks)
    back,       \* the page the "next" relation of the remote's last page
                \* names, 0 when it has none (SpecLive)
    other,      \* the second Github instance of the bar, as a record of the
                \* variables pc .. created (SpecTwo)
    active      \* which of the two instances the variables pc .. created
                \* hold, 0 when the bar has one block

vars ==
    <<pc, block, it, aggregations, remote, results, requests, ret, handed,
      created, header, parsed, back, other, active>>

\* The variables the block's own steps leave alone.
outside == <<header, parsed, back, other, active>>

\* ---------------------------------------------------- program constants
\* GithubConfig::default_interval, in seconds.
DefaultInterval == 30

GITHUB_TOKEN_ENV == "GITHUB_TOKEN"

default_api_server == "https://api.github.com"

\* -------------------------------------------------------------- values
\* std::env::var(..).ok() is None.
NoToken == "<unset>"

\* The values the environment variable takes.
EnvTokens == {NoToken, "s3cr3t"}

\* The reason strings the remote sends: two documented ones, the string
\* "total" and one that is not documented.
Reasons == {"mention", "author", "total", "custom"}

\* struct Notification { reason: String }
Notification(r) == [reason |-> r]

Notifs == {Notification(r) : r \in Reasons}

\* The sequences over S of length at most n.
SeqsUpTo(S, n) == UNION {[1..m -> S] : m \in 0..n}

RECURSIVE ChainsOver(_, _, _)
\* The chains of n pages holding at most k notifications of S together.
ChainsOver(S, n, k) ==
    IF n = 0 THEN {<<>>}
    ELSE UNION {{<<p>> \o c : c \in ChainsOver(S, n - 1, k - Len(p))} :
                p \in SeqsUpTo(S, k)}

RECURSIVE ChainsN(_, _)
\* The chains of n pages holding at most k notifications together.
ChainsN(n, k) ==
    IF n = 0 THEN {<<>>}
    ELSE UNION {{<<p>> \o c : c \in ChainsN(n - 1, k - Len(p))} :
                p \in SeqsUpTo(Notifs, k)}

\* The remote's page chains: page i of a chain links to page i + 1, the last
\* page carries no "next" relation.
Chains == UNION {ChainsN(n, MaxItems) : n \in 1..MaxPages}

\* What the remote does with one request.
\*   ok         success status, readable Link header, JSON array body
\*   transport  send() fails (timeout, connection failure)
\*   status     non-success status, body is a JSON {message} object
\*   statusjunk non-success status, body is no JSON {message} object
\*   header     success status, Link header value is not visible ASCII
\*   body       success status, readable Link header, body is no JSON array
Outcomes == {"ok", "transport", "status", "statusjunk", "header", "body"}

DecDigits == <<"0", "1", "2", "3", "4", "5", "6", "7", "8", "9">>

RECURSIVE Decimal(_)
\* format!("{}", n) of an unsigned integer.
Decimal(n) ==
    IF n < 10 THEN DecDigits[n + 1]
    ELSE Decimal(n \div 10) \o DecDigits[(n % 10) + 1]

\* format!("{}/notifications", self.api_server), and the URLs the remote
\* gives the later pages of the listing.
PageUrl(api, i) ==
    IF i = 1 THEN api \o "/notifications"
    ELSE api \o "/notifications?page=" \o Decimal(i)

\* The text of one `<url>; rel="name"` segment of a Link header value, by
\* what LINKS_REGEX tests of it:
\*   url    the text between `<` and `>`
\*   http   the url starts with http:// or https:// and goes on
\*   blank  the url holds whitespace
\*   param  the text between `>` and the relation name
\*   name   the word characters the relation name starts with
\*   tail   the rest of the relation name
\*   glued  the next segment starts right after the relation name, with
\*          neither a closing quote nor a separator
Segment(url, http, blank, param, name, tail, glued) ==
    [url |-> url, http |-> http, blank |-> blank, param |-> param,
     name |-> name, tail |-> tail, glued |-> glued]

\* The literal of LINKS_REGEX between the url and the relation name.
RelParam == "; rel=\""

\* The segment `<u>; rel="r"` as GitHub writes it.
Link(u, r) == Segment(u, TRUE, FALSE, RelParam, r, "", FALSE)

\* The named groups `url` and `rel` of one match of LINKS_REGEX.
Seg(u, r) == [url |-> u, rel |-> r]

\* One round of the group of LINKS_REGEX matches the segment:
\*   <(?P<url>http(s)?://[^>\s]+)>; rel="(?P<rel>[[:word:]]+)
Matches(seg) ==
    seg.http /\ ~seg.blank /\ seg.param = RelParam /\ seg.name # ""

RECURSIVE captures_iter(_)
\* LINKS_REGEX.captures_iter(raw_links): the matches from left to right. A
\* segment no round matches is passed over; the group repeats over segments
\* that follow each other without a gap, and a repeated group keeps the
\* captures of its last round.
captures_iter(raw_links) ==
    IF raw_links = <<>> THEN <<>>
    ELSE LET seg == Head(raw_links)
             rest == Tail(raw_links)
         IN  IF ~Matches(seg) THEN captures_iter(rest)
             ELSE IF seg.glued /\ seg.tail = "" /\ rest # <<>> /\ Matches(Head(rest))
             THEN captures_iter(rest)
             ELSE <<Seg(seg.url, seg.name)>> \o captures_iter(rest)

\* response.headers().get(LINK) is None.
NoHeader == [present |-> FALSE, text |-> FALSE, segs |-> <<>>]

\* A Link header whose bytes to_str() refuses.
OpaqueHeader == [present |-> TRUE, text |-> FALSE, segs |-> <<>>]

TextHeader(s) == [present |-> TRUE, text |-> TRUE, segs |-> s]

\* The Link header GitHub sends with page i of n: next and last on every
\* page but the last, prev and first on every page but the first.
LinkHeader(api, i, n) ==
    IF n = 1 THEN NoHeader
    ELSE TextHeader(
        (IF i < n THEN <<Link(PageUrl(api, i + 1), "next"),
                         Link(PageUrl(api, n), "last")>> ELSE <<>>)
        \o
        (IF i > 1 THEN <<Link(PageUrl(api, i - 1), "prev"),
                         Link(PageUrl(api, 1), "first")>> ELSE <<>>))

\* Response bodies. A notification object on the wire carries its reason
\* among other fields.
WireItem(n) == [reason |-> n.reason, unread |-> TRUE]
JsonItems(items) ==
    [json |-> "array", items |-> [i \in DOMAIN items |-> WireItem(items[i])]]
JsonError == [json |-> "message", items |-> <<>>]
JsonJunk == [json |-> "junk", items |-> <<>>]

Response(sent, success, link, body) ==
    [sent |-> sent, success |-> success, link |-> link, body |-> body]

\* The response of the remote `chain` served at `api` to a GET of `url`
\* when it behaves as `outcome`. A URL that is no page of the chain is
\* answered 404 with a JSON {message}.
Respond(chain, api, url, outcome) ==
    LET n == Len(chain)
        known == {i \in 1..n : PageUrl(api, i) = url}
    IN  IF outcome = "transport" THEN Response(FALSE, FALSE, NoHeader, JsonJunk)
        ELSE IF known = {} \/ outcome = "status"
             THEN Response(TRUE, FALSE, NoHeader, JsonError)
        ELSE IF outcome = "statusjunk"
             THEN Response(TRUE, FALSE, NoHeader, JsonJunk)
        ELSE LET i == CHOOSE j \in known : TRUE
             IN  CASE outcome = "ok" ->
                        Response(TRUE, TRUE, LinkHeader(api, i, n), JsonItems(chain[i]))
                   [] outcome = "header" ->
                        Response(TRUE, TRUE, OpaqueHeader, JsonItems(chain[i]))
                   [] outcome = "body" ->
                        Response(TRUE, TRUE, LinkHeader(api, i, n), JsonJunk)

\* ------------------------------------------------------ extract_links
RECURSIVE insert_all(_)
\* The fold of extract_links over the captures: every capture inserts
\* rel -> url, a later insert of the same rel overwrites.
insert_all(caps) ==
    IF caps = <<>> THEN <<>>
    ELSE LET n == Len(caps)
             acc == insert_all(SubSeq(caps, 1, n - 1))
             cap == caps[n]
         IN  [r \in DOMAIN acc \cup {cap.rel} |->
                 IF r = cap.rel THEN cap.url ELSE acc[r]]

RECURSIVE insert_new(_)
\* The fold with entry(rel).or_insert(url): the first url of a rel stays.
insert_new(caps) ==
    IF caps = <<>> THEN <<>>
    ELSE LET n == Len(caps)
             acc == insert_new(SubSeq(caps, 1, n - 1))
             cap == caps[n]
         IN  [r \in DOMAIN acc \cup {cap.rel} |->
                 IF r \in DOMAIN acc THEN acc[r] ELSE cap.url]

extract_links_first_wins(raw_links) == insert_new(captures_iter(raw_links))

\* extract_links: the captures of LINKS_REGEX in the header value folded
\* into a map from rel to url.
extract_links(raw_links) == insert_all(captures_iter(raw_links))

\* ------------------------------------------------------- Notifications
\* response.headers().get(LINK), read with to_str(): the text of the header
\* ("" when there is none), or the error of to_str().
link_header(response) ==
    IF ~response.link.present THEN [ok |-> TRUE, segs |-> <<>>]
    ELSE IF response.link.text THEN [ok |-> TRUE, segs |-> response.link.segs]
    ELSE [ok |-> FALSE, segs |-> <<>>]

\* The cursor set back to the "first" relation on the last page.
next_url_or_first(links) ==
    IF "next" \in DOMAIN links THEN links["next"]
    ELSE IF "first" \in DOMAIN links THEN links["first"]
    ELSE ""

\* extract_links(link_header).get(&"next"), "" when there is none.
next_url(links) == IF "next" \in DOMAIN links THEN links["next"] ELSE ""

\* The reasons GitHub documents.
DocumentedReasons ==
    {"assign", "author", "comment", "invitation", "manual", "mention",
     "review_requested", "security_alert", "state_change", "subscribed",
     "team_mention"}

\* The reason read as an enumeration of the documented reasons: any other
\* reason fails the parse of the body.
parse_items_strict(body) ==
    IF body.json = "array"
       /\ \A i \in DOMAIN body.items : body.items[i].reason \in DocumentedReasons
    THEN [ok |-> TRUE,
          items |-> [i \in DOMAIN body.items |-> Notification(body.items[i].reason)]]
    ELSE [ok |-> FALSE, items |-> <<>>]

\* A body that does not parse read as an empty page.
parse_items_lenient(body) ==
    IF body.json = "array"
    THEN [ok |-> TRUE,
          items |-> [i \in DOMAIN body.items |-> Notification(body.items[i].reason)]]
    ELSE [ok |-> TRUE, items |-> <<>>]

\* response.json::<Vec<Notification>>(): the notifications of a JSON array
\* body, each reduced to its reason, or an error.
parse_items(body) ==
    IF body.json = "array"
    THEN [ok |-> TRUE,
          items |-> [i \in DOMAIN body.items |-> Notification(body.items[i].reason)]]
    ELSE [ok |-> FALSE, items |-> <<>>]

\* What one next() call gives its caller.
ResItem(n) == [kind |-> "item", reason |-> n.reason]
ResErr == [kind |-> "err", reason |-> ""]
ResNone == [kind |-> "none", reason |-> ""]

\* The cursor kept in the client from one update() to the next: only the
\* first handle starts at the listing.
notifications_resumed(self) ==
    [notifications |-> <<>>,
     next_page_url |-> IF ret.kind = "none"
                       THEN self.api_server \o "/notifications"
                       ELSE it.next_page_url]

\* The cursor kept in a static that all handles of the process share: a
\* handle starts where the handle of another instance stands.
notifications_shared(self) ==
    [notifications |-> <<>>,
     next_page_url |-> IF other.it.next_page_url # ""
                       THEN other.it.next_page_url
                       ELSE self.api_server \o "/notifications"]

\* GithubClient::notifications: a fresh sequence handle, no request made.
notifications(self) ==
    [notifications |-> <<>>,
     next_page_url |-> self.api_server \o "/notifications"]

\* The result of a call: the handle after it, what it returns and whether
\* it sent a request.
Step(self, res, req) == [it |-> self, res |-> res, req |-> req]

\* Notifications::try_next, `response` being what the remote answers if the
\* call sends its request.
try_next(self, response) ==
    IF self.notifications # <<>>
    THEN Step([self EXCEPT !.notifications = Tail(@)],
              ResItem(Head(self.notifications)), FALSE)
    ELSE IF self.next_page_url = ""
    THEN Step(self, ResNone, FALSE)
    ELSE IF ~response.sent
    THEN Step(self, ResErr, TRUE)
    ELSE IF ~response.success
    THEN Step(self, ResErr, TRUE)
    ELSE IF ~link_header(response).ok
    THEN Step(self, ResErr, TRUE)
    ELSE LET links == extract_links(link_header(response).segs)
             moved == [self EXCEPT !.next_page_url = next_url(links)]
             page == parse_items(response.body)
         IN  IF ~page.ok
             THEN Step(moved, ResErr, TRUE)
             ELSE LET items == page.items
                  IN  IF items = <<>>
                      THEN Step([moved EXCEPT !.notifications = <<>>],
                                ResNone, TRUE)
                      ELSE Step([moved EXCEPT !.notifications = Tail(items)],
                                ResItem(Head(items)), TRUE)

\* Iterator::next for Notifications: Ok(Some) -> Some(Ok), Ok(None) -> None,
\* Err -> Some(Err).
next(self, response) == try_next(self, response)

\* ------------------------------------------------------ FormatTemplate
\* A format string, as the tokens FormatTemplate splits it into: literal
\* text and `{name}` placeholders.
Str(s) == [var |-> FALSE, s |-> s]
Var(s) == [var |-> TRUE, s |-> s]

\* GithubConfig::default_format: "{total}".
default_format == <<Var("{total}")>>

\* The format strings of the configuration: the default, "{total} ({mention})",
\* and "{total} {stars}", which names a placeholder the block does not declare.
Formats ==
    {default_format,
     <<Var("{total}"), Str(" ("), Var("{mention}"), Str(")")>>,
     <<Var("{total}"), Str(" "), Var("{stars}")>>}

\* The names update() declares: total and the documented notification reasons.
PlaceholderNames ==
    <<"total", "assign", "author", "comment", "invitation", "manual", "mention",
      "review_requested", "security_alert", "state_change", "subscribed",
      "team_mention">>

Key(name) == "{" \o name \o "}"

Placeholders == {Key(PlaceholderNames[i]) : i \in DOMAIN PlaceholderNames}

\* FormatTemplate::from_string: the template, or an error for a format string
\* that names a placeholder outside the declared set.
from_string(s) ==
    IF \E i \in DOMAIN s : s[i].var /\ s[i].s \notin Placeholders
    THEN [ok |-> FALSE, template |-> <<>>]
    ELSE [ok |-> TRUE, template |-> s]

RECURSIVE render_static_str(_, _)
\* FormatTemplate::render_static_str: the literals and the values of the
\* placeholders in order; an error when a placeholder has no value.
render_static_str(template, vals) ==
    IF template = <<>> THEN [ok |-> TRUE, s |-> ""]
    ELSE LET tok == Head(template)
             rest == render_static_str(Tail(template), vals)
         IN  IF tok.var /\ tok.s \notin DOMAIN vals THEN [ok |-> FALSE, s |-> ""]
             ELSE IF ~rest.ok THEN rest
             ELSE [ok |-> TRUE,
                   s |-> (IF tok.var THEN vals[tok.s] ELSE tok.s) \o rest.s]

\* ------------------------------------------------------- Github::update
\* map!("total".to_owned() => 0)
InitialCounts == [k \in {"total"} |-> 0]

\* The closure try_fold applies to one notification:
\*   acc.entry(n.reason).and_modify(|v| *v += 1).or_insert(1);
\*   acc.entry("total").and_modify(|v| *v += 1);
fold_step(acc, n) ==
    LET counted == IF n.reason \in DOMAIN acc
                   THEN [acc EXCEPT ![n.reason] = @ + 1]
                   ELSE [k \in DOMAIN acc \cup {n.reason} |->
                            IF k = n.reason THEN 1 ELSE acc[k]]
    IN  IF "total" \in DOMAIN counted
        THEN [counted EXCEPT !["total"] = @ + 1]
        ELSE counted

\* aggregations.get(name).unwrap_or(&default)
CountOf(agg, name) ==
    IF name \in DOMAIN agg THEN agg[name] ELSE 0

\* The `values` map with the count of "author" copied under "{mention}".
values_swapped(agg) ==
    ("{total}" :> Decimal(CountOf(agg, "total")))
    @@ ("{assign}" :> Decimal(CountOf(agg, "assign")))
    @@ ("{author}" :> Decimal(CountOf(agg, "author")))
    @@ ("{comment}" :> Decimal(CountOf(agg, "comment")))
    @@ ("{invitation}" :> Decimal(CountOf(agg, "invitation")))
    @@ ("{manual}" :> Decimal(CountOf(agg, "manual")))
    @@ ("{mention}" :> Decimal(CountOf(agg, "author")))
    @@ ("{review_requested}" :> Decimal(CountOf(agg, "review_requested")))
    @@ ("{security_alert}" :> Decimal(CountOf(agg, "security_alert")))
    @@ ("{state_change}" :> Decimal(CountOf(agg, "state_change")))
    @@ ("{subscribed}" :> Decimal(CountOf(agg, "subscribed")))
    @@ ("{team_mention}" :> Decimal(CountOf(agg, "team_mention")))

\* The `values` map update() hands the template engine.
values(agg) ==
    ("{total}" :> Decimal(CountOf(agg, "total")))
    @@ ("{assign}" :> Decimal(CountOf(agg, "assign")))
    @@ ("{author}" :> Decimal(CountOf(agg, "author")))
    @@ ("{comment}" :> Decimal(CountOf(agg, "comment")))
    @@ ("{invitation}" :> Decimal(CountOf(agg, "invitation")))
    @@ ("{manual}" :> Decimal(CountOf(agg, "manual")))
    @@ ("{mention}" :> Decimal(CountOf(agg, "mention")))
    @@ ("{review_requested}" :> Decimal(CountOf(agg, "review_requested")))
    @@ ("{security_alert}" :> Decimal(CountOf(agg, "security_alert")))
    @@ ("{state_change}" :> Decimal(CountOf(agg, "state_change")))
    @@ ("{subscribed}" :> Decimal(CountOf(agg, "subscribed")))
    @@ ("{team_mention}" :> Decimal(CountOf(agg, "team_mention")))

\* What update() returns to the scheduler.
NoReturn == [kind |-> "none", delay |-> 0]
OkSome(d) == [kind |-> "ok", delay |-> d]
Err == [kind |-> "err", delay |-> 0]

\* What update() leaves behind: the widget's text, its return value and the
\* map it handed the template engine (<<>> when it rendered nothing).
Outcome(t, r, v) == [text |-> t, ret |-> r, handed |-> v]

\* update(), the fold having ended with Ok(aggregations): render, set the
\* text, return the interval; a render error is returned by `?`.
update_ok(self, agg) ==
    LET handing == values(agg)
        r == render_static_str(self.format, handing)
    IN  IF r.ok THEN Outcome(r.s, OkSome(self.update_interval), handing)
        ELSE Outcome(self.text, Err, handing)

\* The counts folded before the error rendered like a complete aggregate.
update_err_partial(self, agg) == update_ok(self, agg)

\* The error of the fold returned to the scheduler, as `?` would.
update_err_propagate(self, agg) == Outcome(self.text, Err, <<>>)

\* The next poll put off to twice the interval after a failed fold.
update_err_backoff(self, agg) ==
    Outcome("N/A", OkSome(2 * self.update_interval), <<>>)

\* The text left as it was when the fold ends with an error.
update_err_stale(self, agg) ==
    Outcome(self.text, OkSome(self.update_interval), <<>>)

\* update(), the fold having ended with an error:
\*   self.text.set_text("N/A"); return Ok(Some(self.update_interval))
update_err(self, agg) ==
    Outcome("N/A", OkSome(self.update_interval), <<>>)

\* ---------------------------------------------------------- Github::new
\* The token read where it is first needed: a missing token gives a block
\* with an empty token.
new_token_unchecked(env_token, block_config) ==
    LET f == from_string(block_config.format)
    IN  IF ~f.ok THEN [ok |-> FALSE, why |-> "format"]
        ELSE [ok |-> TRUE, why |-> "",
              update_interval |-> block_config.interval,
              text |-> "N/A",
              gh |-> [api_server |-> block_config.api_server,
                      token |-> IF env_token = NoToken THEN "" ELSE env_token],
              format |-> f.template]

\* Github::new: an error when the token is missing, then the block with the
\* text "N/A", or the error of from_string.
new(env_token, block_config) ==
    IF env_token = NoToken THEN [ok |-> FALSE, why |-> "token"]
    ELSE LET f == from_string(block_config.format)
         IN  IF ~f.ok THEN [ok |-> FALSE, why |-> "format"]
             ELSE [ok |-> TRUE, why |-> "",
                   update_interval |-> block_config.interval,
                   text |-> "N/A",
                   gh |-> [api_server |-> block_config.api_server,
                           token |-> env_token],
                   format |-> f.template]

\* The configurations of the block: the default one, and one with an
\* interval of its own for every other format string.
Intervals == {DefaultInterval, 2 * DefaultInterval}
ApiServers == {default_api_server}
Configs ==
    {c \in [interval : Intervals, api_server : ApiServers, format : Formats] :
        c.interval = DefaultInterval <=> c.format = default_format}

\* ------------------------------------------------------------- actions
NoBlock ==
    [update_interval |-> 0, text |-> "",
     gh |-> [api_server |-> "", token |-> ""], format |-> <<>>]

NoHandle == [notifications |-> <<>>, next_page_url |-> ""]

\* What Github::new was given and how it ended: "ok", or the error "token" or
\* "format"; "none" before the call.
Created(why, env_token, block_config) ==
    [why |-> why, env_token |-> env_token, block_config |-> block_config]

NotCreated ==
    Created("none", NoToken,
            [interval |-> DefaultInterval, api_server |-> default_api_server,
             format |-> default_format])

\* The entry of `results` for one next() call: what it returned and whether
\* it sent a request.
Called(r) == [kind |-> r.res.kind, reason |-> r.res.reason, req |-> r.req]

\* `parsed` before extract_links has run.
Unparsed == [done |-> FALSE, map |-> <<>>]

\* The variables of one Github instance as a record.
Instance(p, b, h, agg, chain, res, req, r, v, c) ==
    [pc |-> p, block |-> b, it |-> h, aggregations |-> agg, remote |-> chain,
     results |-> res, requests |-> req, ret |-> r, handed |-> v, created |-> c]

\* No second instance.
NoInstance ==
    Instance("start", NoBlock, NoHandle, <<>>, <<>>, <<>>, <<>>, NoReturn, <<>>,
             NotCreated)

\* No block exists yet.
Fresh ==
    /\ pc = "start"
    /\ block = NoBlock
    /\ it = NoHandle
    /\ aggregations = <<>>
    /\ remote = <<>>
    /\ results = <<>>
    /\ requests = <<>>
    /\ ret = NoReturn
    /\ handed = <<>>
    /\ created = NotCreated

Init ==
    /\ Fresh
    /\ header = <<>>
    /\ parsed = Unparsed
    /\ back = 0
    /\ other = NoInstance
    /\ active = 0

\* Github::new with the environment token and the block's configuration.
New ==
    /\ pc = "start"
    /\ \E env_token \in EnvTokens, block_config \in Configs :
          LET b == new(env_token, block_config)
          IN  /\ pc' = IF b.ok THEN "idle" ELSE "failed"
              /\ created' = Created(IF b.ok THEN "ok" ELSE b.why,
                                    env_token, block_config)
              /\ block' = IF b.ok
                          THEN [update_interval |-> b.update_interval,
                                text |-> b.text, gh |-> b.gh, format |-> b.format]
                          ELSE block
    /\ UNCHANGED <<it, aggregations, remote, results, requests, ret, handed>>
    /\ UNCHANGED outside

\* The token sent to the listing only, the "next" urls fetched without it.
Request_listing_only(self, gh, outcome) ==
    [url |-> self.next_page_url,
     auth |-> IF self.next_page_url = gh.api_server \o "/notifications"
              THEN "token " \o gh.token ELSE "",
     outcome |-> outcome]

\* The request a call sends: the URL, the Authorization header and how the
\* remote behaved.
Request(self, gh, outcome) ==
    [url |-> self.next_page_url, auth |-> "token " \o gh.token,
     outcome |-> outcome]

\* The page chains served to the polls of two instances: every item is a
\* mention.
TwoChains ==
    UNION {ChainsOver({Notification("mention")}, n, MaxTwoItems) :
              n \in 1..MaxPages}

\* The page chains the remote may serve to a call: any chain when the call
\* is the first pull of the handle, the chain of the poll afterwards.
Serving ==
    IF results # <<>> THEN {remote}
    ELSE IF active = 0 THEN Chains ELSE TwoChains

\* update() up to its first next() call: self.gh.notifications() and the
\* initial accumulator.
UpdateBegin ==
    /\ pc = "idle"
    /\ pc' = "folding"
    /\ it' = notifications(block.gh)
    /\ aggregations' = InitialCounts
    /\ remote' = <<>>
    /\ results' = <<>>
    /\ requests' = <<>>
    /\ ret' = NoReturn
    /\ handed' = <<>>
    /\ UNCHANGED <<block, created, outside>>

\* One round of try_fold: a next() call and what update() does with its
\* result: fold the item, or leave the fold and finish update().
UpdateNext ==
    /\ pc = "folding"
    /\ \E chain \in Serving, outcome \in Outcomes :
          LET r == next(it, Respond(chain, block.gh.api_server,
                                    it.next_page_url, outcome))
              done == IF r.res.kind = "err" THEN update_err(block, aggregations)
                      ELSE update_ok(block, aggregations)
          IN  /\ remote' = chain
              /\ it' = r.it
              /\ results' = Append(results, Called(r))
              /\ requests' = IF r.req
                             THEN Append(requests, Request(it, block.gh, outcome))
                             ELSE requests
              /\ IF r.res.kind = "item"
                 THEN /\ aggregations' = fold_step(aggregations, r.res)
                      /\ UNCHANGED <<pc, block, ret, handed>>
                 ELSE /\ pc' = "idle"
                      /\ block' = [block EXCEPT !.text = done.text]
                      /\ ret' = done.ret
                      /\ handed' = done.handed
                      /\ UNCHANGED aggregations
    /\ UNCHANGED <<created, outside>>

Next == New \/ UpdateBegin \/ UpdateNext

Spec == Init /\ [][Next]_vars

\* ------------------------------------------- the handle under any caller
\* A caller other than try_fold takes a handle ...
IterOpen ==
    /\ pc = "idle"
    /\ pc' = "pulling"
    /\ it' = notifications(block.gh)
    /\ remote' = <<>>
    /\ results' = <<>>
    /\ requests' = <<>>
    /\ UNCHANGED <<block, aggregations, ret, handed, created, outside>>

\* ... and calls next() on it, whatever the earlier calls returned.
IterNext ==
    /\ pc = "pulling"
    /\ Len(results) < MaxCalls
    /\ \E chain \in Serving, outcome \in Outcomes :
          LET r == next(it, Respond(chain, block.gh.api_server,
                                    it.next_page_url, outcome))
          IN  /\ remote' = chain
              /\ it' = r.it
              /\ results' = Append(results, Called(r))
              /\ requests' = IF r.req
                             THEN Append(requests, Request(it, block.gh, outcome))
                             ELSE requests
    /\ UNCHANGED <<pc, block, aggregations, ret, handed, created, outside>>

NextIter == New \/ IterOpen \/ IterNext

\* The Iterator contract of Notifications: the handle pulled by an
\* arbitrary caller.
SpecIter == Init /\ [][NextIter]_vars

\* ------------------------------------------- polls on a remote that loops
\* The page chains of SpecLive: the reasons of the items play no part in
\* whether a poll returns, every item is a mention.
LiveChains ==
    UNION {ChainsOver({Notification("mention")}, n, MaxItems) : n \in 1..MaxPages}

\* The remote of the poll: picked when the first call of the poll is served,
\* the same afterwards. Its last page may carry a "next" relation that names
\* a page of the chain again.
LiveServing ==
    IF remote = <<>>
    THEN {[chain |-> c, back |-> b] : c \in LiveChains, b \in 0..MaxPages}
    ELSE {[chain |-> remote, back |-> back]}

\* Respond for a remote whose last page names page b as its "next" (b > 0).
RespondLive(chain, b, api, url, outcome) ==
    LET r == Respond(chain, api, url, outcome)
    IN  IF /\ b > 0
           /\ url = PageUrl(api, Len(chain))
           /\ r.success
           /\ r.link # OpaqueHeader
        THEN [r EXCEPT !.link =
                 TextHeader(r.link.segs \o <<Link(PageUrl(api, b), "next")>>)]
        ELSE r

\* The counts as the bounded model keeps them.
Wrapped(agg) == [k \in DOMAIN agg |-> agg[k] % CountModulus]

\* One round of try_fold, as UpdateNext, on a remote that may loop; the
\* calls and requests are not recorded.
LiveNext ==
    /\ pc = "folding"
    /\ \E serving \in LiveServing, outcome \in Outcomes :
          LET r == next(it, RespondLive(serving.chain, serving.back,
                                        block.gh.api_server,
                                        it.next_page_url, outcome))
              done == IF r.res.kind = "err" THEN update_err(block, aggregations)
                      ELSE update_ok(block, aggregations)
          IN  /\ serving.back <= Len(serving.chain)
              /\ remote' = serving.chain
              /\ back' = serving.back
              /\ it' = r.it
              /\ IF r.res.kind = "item"
                 THEN /\ aggregations' = Wrapped(fold_step(aggregations, r.res))
                      /\ UNCHANGED <<pc, block, ret, handed>>
                 ELSE /\ pc' = "idle"
                      /\ block' = [block EXCEPT !.text = done.text]
                      /\ ret' = done.ret
                      /\ handed' = done.handed
                      /\ UNCHANGED aggregations
    /\ UNCHANGED <<created, results, requests, header, parsed, other, active>>

NextLive == New \/ UpdateBegin \/ LiveNext

\* update() runs to its end once called: every started round of try_fold is
\* taken, each request completing or timing out.
SpecLive == Init /\ [][NextLive]_vars /\ WF_vars(LiveNext)

\* ------------------------------------------------- two blocks in one bar
\* The api_server of the second block.
enterprise_api_server == "https://ghe.example.com/api/v3"

\* The instance the variables pc .. created hold.
Cur ==
    Instance(pc, block, it, aggregations, remote, results, requests, ret,
             handed, created)

\* The block of a successful Github::new.
BlockOf(b) ==
    [update_interval |-> b.update_interval, text |-> b.text, gh |-> b.gh,
     format |-> b.format]

\* Two github blocks of one bar, constructed one after the other from the
\* same environment, the second for another api_server; the bar does not
\* start when a block fails to construct.
NewTwo ==
    /\ pc = "start"
    /\ \E env_token \in EnvTokens, c1 \in Configs :
          LET c2 == [c1 EXCEPT !.api_server = enterprise_api_server]
              b1 == new(env_token, c1)
              b2 == new(env_token, c2)
          IN  IF b1.ok /\ b2.ok
              THEN /\ pc' = "idle"
                   /\ block' = BlockOf(b1)
                   /\ created' = Created("ok", env_token, c1)
                   /\ other' = [NoInstance EXCEPT
                                   !.pc = "idle",
                                   !.block = BlockOf(b2),
                                   !.created = Created("ok", env_token, c2)]
                   /\ active' = 1
              ELSE /\ pc' = "failed"
                   /\ created' = Created(IF b1.ok THEN b2.why ELSE b1.why,
                                         env_token, c1)
                   /\ UNCHANGED <<block, other, active>>
    /\ UNCHANGED <<it, aggregations, remote, results, requests, ret, handed,
                   header, parsed, back>>

\* The scheduler turns to the other instance: between two steps of one
\* instance the other may take any number of its own.
Swap ==
    /\ active # 0
    /\ active' = 3 - active
    /\ other' = Cur
    /\ pc' = other.pc
    /\ block' = other.block
    /\ it' = other.it
    /\ aggregations' = other.aggregations
    /\ remote' = other.remote
    /\ results' = other.results
    /\ requests' = other.requests
    /\ ret' = other.ret
    /\ handed' = other.handed
    /\ created' = other.created
    /\ UNCHANGED <<header, parsed, back>>

NextTwo == NewTwo \/ Swap \/ UpdateBegin \/ UpdateNext

\* The polls of two instances, interleaved call by call.
SpecTwo == Init /\ [][NextTwo]_vars

\* ------------------------------------------------- extract_links alone
UrlPage2 == "https://api.github.com/notifications?page=2"
UrlPage3 == "http://ghe.local/api/v3/notifications?page=3"

\* The segments of the header values: `<url>; rel="name"` with two urls and
\* three names, and segments LINKS_REGEX does not match as a whole: a url of
\* another scheme, a url with a blank, a relation name without its opening
\* quote, an empty relation name, a relation name that goes on after its
\* word characters, a segment whose closing quote and separator are missing.
Segments ==
    {Link(u, r) : u \in {UrlPage2, UrlPage3}, r \in {"next", "last", "prev"}}
    \cup
    {Segment("ftp://ghe.local/notifications?page=2", FALSE, FALSE, RelParam,
             "next", "", FALSE),
     Segment("https://api.github.com/notifications? page=2", TRUE, TRUE,
             RelParam, "next", "", FALSE),
     Segment(UrlPage2, TRUE, FALSE, "; rel=", "next", "", FALSE),
     Segment(UrlPage2, TRUE, FALSE, RelParam, "", "", FALSE),
     Segment(UrlPage3, TRUE, FALSE, RelParam, "next", "-archive", FALSE),
     Segment(UrlPage3, TRUE, FALSE, RelParam, "prev", "", TRUE)}

\* The header values handed to extract_links, the empty one included.
Headers == SeqsUpTo(Segments, MaxSegs)

InitLinks ==
    /\ Fresh
    /\ header \in Headers
    /\ parsed = Unparsed
    /\ back = 0
    /\ other = NoInstance
    /\ active = 0

\* extract_links(header)
Parse ==
    /\ ~parsed.done
    /\ parsed' = [done |-> TRUE, map |-> extract_links(header)]
    /\ UNCHANGED <<pc, block, it, aggregations, remote, results, requests,
                   ret, handed, created, header, back, other, active>>

NextLinks == Parse

\* extract_links applied to the Link header values.
SpecLinks == InitLinks /\ [][NextLinks]_vars

\* ------------------------------------------------------------- claims
Last(s) == s[Len(s)]

RECURSIVE Concat(_)
\* The notifications of the pages of a chain, in page order.
Concat(chain) ==
    IF chain = <<>> THEN <<>> ELSE Head(chain) \o Concat(Tail(chain))

\* The calls that returned an item.
ItemCalls == {i \in DOMAIN results : results[i].kind = "item"}

\* The number of calls that returned an item with the reason `name`.
ItemCount(name) ==
    Cardinality({i \in ItemCalls : results[i].reason = name})

RECURSIVE SumOf(_, _)
SumOf(f, S) ==
    IF S = {} THEN 0
    ELSE LET k == CHOOSE x \in S : TRUE IN f[k] + SumOf(f, S \ {k})

\* Every request sent through the handle so far was answered successfully.
AllServedOk == \A q \in DOMAIN requests : requests[q].outcome = "ok"

\* A fold is running or has run.
Folded == pc \in {"folding", "idle"} /\ "total" \in DOMAIN aggregations

\* update() has returned.
PollDone == pc = "idle" /\ results # <<>>

BaseUrl == block.gh.api_server \o "/notifications"

FormatTotalMention == <<Var("{total}"), Str(" ("), Var("{mention}"), Str(")")>>

\* C1: when every request of a chain succeeds, the items next() yields before
\* it first signals end-of-sequence are the concatenation of all the pages'
\* items in page order, also when a page that is not the last is empty.
C1_YieldsAllPages ==
    \A e \in DOMAIN results :
        (/\ results[e].kind = "none"
         /\ \A i \in 1..(e - 1) : results[i].kind = "item"
         /\ AllServedOk)
        => [i \in 1..(e - 1) |-> Notification(results[i].reason)] = Concat(remote)

\* C2: once next() has returned an error, every later next() call on the
\* same handle returns end-of-sequence and sends no request.
C2_FailStop ==
    \A i, j \in DOMAIN results :
        (i < j /\ results[i].kind = "err")
        => (results[j].kind = "none" /\ ~results[j].req)

\* The three ways of the claim in which a page fetch fails.
ThreeWays == {"transport", "status", "statusjunk", "body"}

\* C3: if the fetch of page K fails (transport error, non-success status,
\* unparsable body) after pages 1..K-1 were fetched successfully, the handle
\* has yielded exactly the items of pages 1..K-1 in order and then one
\* error, and no item of page K or of a later page.
C3_ItemsThenError ==
    (/\ requests # <<>>
     /\ Last(requests).outcome \in ThreeWays
     /\ \A q \in 1..(Len(requests) - 1) : requests[q].outcome = "ok")
    => LET K == Len(requests)
           before == Concat(SubSeq(remote, 1, K - 1))
       IN  /\ K <= Len(remote)
           /\ \A q \in 1..K :
                 requests[q].url = PageUrl(block.gh.api_server, q)
           /\ Len(results) = Len(before) + 1
           /\ \A i \in 1..Len(before) :
                 /\ results[i].kind = "item"
                 /\ results[i].reason = before[i].reason
           /\ Last(results).kind = "err"

\* C3 witness: page 2 failed on its body after the two items of page 1.
C3_Witness ==
    /\ Len(requests) = 2
    /\ requests[1].outcome = "ok"
    /\ requests[2].outcome = "body"
    /\ Len(remote[1]) = 2
    /\ Len(results) = 3
    /\ Last(results).kind = "err"

\* C4: the "total" entry of the aggregate is the number of items folded, and
\* the entry of every name is the number of folded items with exactly that
\* reason, the reason "total" included.
C4_CountsMatchItems ==
    Folded =>
        /\ aggregations["total"] = Cardinality(ItemCalls)
        /\ \A name \in Reasons \cup DOMAIN aggregations :
              CountOf(aggregations, name) = ItemCount(name)

\* C5: at every step of the fold "total" is present and equals the sum of
\* the category entries, it is 0 at the start, and every other key has a
\* count of at least 1 and was the reason of a folded item.
C5_TotalIsSum ==
    Folded =>
        LET cats == DOMAIN aggregations \ {"total"}
        IN  /\ aggregations["total"] = SumOf(aggregations, cats)
            /\ (results = <<>> => aggregations = [k \in {"total"} |-> 0])
            /\ \A k \in cats : aggregations[k] >= 1 /\ ItemCount(k) >= 1

\* C6: a poll in which a page fetch failed ends with the text "N/A" and
\* returns Ok(Some(update_interval)); the counts folded before the error are
\* handed to no rendering.
C6_ErrorShowsSentinel ==
    (pc = "idle" /\ \E q \in DOMAIN requests : requests[q].outcome # "ok")
    => /\ block.text = "N/A"
       /\ ret = OkSome(block.update_interval)
       /\ handed = <<>>

\* C6 witness: the second page failed after items of the first were folded.
C6_Witness ==
    /\ pc = "idle"
    /\ Len(requests) = 2
    /\ requests[2].outcome # "ok"
    /\ aggregations["total"] >= 1
    /\ block.text = "N/A"

\* The placeholder tokens of a format string that the block does not declare.
UnknownTokens(f) ==
    {i \in DOMAIN f :
        f[i].var /\ f[i].s \notin
            {"{total}", "{assign}", "{author}", "{comment}", "{invitation}",
             "{manual}", "{mention}", "{review_requested}", "{security_alert}",
             "{state_change}", "{subscribed}", "{team_mention}"}}

IsItem(r) == r.kind = "item"

RECURSIVE FoldOf(_)
\* try_fold over a sequence of items, from map!("total" => 0).
FoldOf(items) ==
    IF items = <<>> THEN [k \in {"total"} |-> 0]
    ELSE fold_step(FoldOf(SubSeq(items, 1, Len(items) - 1)), Last(items))

\* C8: every poll starts with an empty buffer and sends its first request to
\* {api_server}/notifications, whatever the earlier polls left; the aggregate
\* is the fold of the items of this poll's responses alone.
C8_PollStartsAfresh ==
    /\ (pc = "folding" /\ results = <<>>)
       => /\ it.notifications = <<>>
          /\ it.next_page_url = BaseUrl
          /\ aggregations = [k \in {"total"} |-> 0]
    /\ (pc \in {"folding", "idle"} /\ results # <<>>)
       => /\ results[1].req
          /\ requests # <<>>
          /\ requests[1].url = BaseUrl
          /\ \A i \in ItemCalls :
                /\ i <= Len(Concat(remote))
                /\ results[i].reason = Concat(remote)[i].reason
          /\ aggregations = FoldOf(SelectSeq(results, IsItem))

\* C8 witness: a poll that follows a successful poll has sent its first
\* request.
C8_Witness ==
    /\ pc = "folding"
    /\ block.text \notin {"N/A", "0", "0 (0)"}
    /\ Len(requests) = 1
    /\ requests[1].url = BaseUrl
    /\ results[1].kind = "item"

\* The twelve placeholder names of the claim.
TwelveNames ==
    {"total", "assign", "author", "comment", "invitation", "manual", "mention",
     "review_requested", "security_alert", "state_change", "subscribed",
     "team_mention"}

\* C9: a successful poll hands the template engine exactly the twelve
\* placeholders, each bound to the decimal count of the same-named entry of
\* the aggregate (0 when absent), and the text is the format string with
\* those substitutions: "{total} ({mention})" with total 3, mention 2,
\* author 1 displays "3 (2)".
C9_RendersCounts ==
    (PollDone /\ Last(results).kind = "none")
    => /\ DOMAIN handed = {"{" \o n \o "}" : n \in TwelveNames}
       /\ \A n \in TwelveNames :
             handed["{" \o n \o "}"] =
                Decimal(IF n \in DOMAIN aggregations THEN aggregations[n] ELSE 0)
       /\ block.format = default_format => block.text = handed["{total}"]
       /\ block.format = FormatTotalMention =>
             block.text = handed["{total}"] \o " (" \o handed["{mention}"] \o ")"
       /\ (/\ block.format = FormatTotalMention
           /\ DOMAIN aggregations = {"total", "mention", "author"}
           /\ aggregations["total"] = 3
           /\ aggregations["mention"] = 2
           /\ aggregations["author"] = 1)
          => block.text = "3 (2)"

\* C9 witness: mention, mention on page 1 and author on page 2 rendered by
\* "{total} ({mention})".
C9_Witness ==
    /\ PollDone
    /\ block.format = FormatTotalMention
    /\ remote = <<<<Notification("mention"), Notification("mention")>>,
                  <<Notification("author")>>>>
    /\ Len(requests) = 2
    /\ Last(results).kind = "none"
    /\ block.text = "3 (2)"

\* C10: an item with an undocumented reason makes no poll fail: a poll whose
\* requests all succeed renders, the item has its own bucket and is counted
\* in total, and the eleven documented placeholders show the counts of the
\* items with their own reasons.
C10_UnknownReasonTolerated ==
    (PollDone /\ AllServedOk)
    => /\ Last(results).kind = "none"
       /\ ret.kind = "ok"
       /\ \A n \in DocumentedReasons :
             handed["{" \o n \o "}"] = Decimal(ItemCount(n))
       /\ \A r \in Reasons \ (DocumentedReasons \cup {"total"}) :
             CountOf(aggregations, r) = ItemCount(r)
       /\ aggregations["total"] >= Cardinality(ItemCalls)

\* C10 witness: a poll with an item of the undocumented reason "custom" and
\* a mention has rendered.
C10_Witness ==
    /\ PollDone
    /\ ret.kind = "ok"
    /\ ItemCount("custom") = 1
    /\ ItemCount("mention") = 1
    /\ "custom" \in DOMAIN aggregations
    /\ handed["{mention}"] = "1"

\* C11: when the environment variable of the token is missing, Github::new
\* returns its configuration error whatever the other configuration values
\* are: no block exists, no request was sent, and nothing can run after the
\* error.
C11_MissingTokenFails ==
    (created.why # "none" /\ created.env_token = NoToken)
    => /\ created.why = "token"
       /\ pc = "failed"
       /\ block = NoBlock
       /\ it = NoHandle
       /\ requests = <<>>
       /\ results = <<>>
       /\ ~ENABLED UpdateBegin
       /\ ~ENABLED UpdateNext

\* C11 witness: construction without a token failed on the token, the format
\* string being one that from_string would have refused too.
C11_Witness ==
    /\ pc = "failed"
    /\ created.env_token = NoToken
    /\ created.why = "token"
    /\ UnknownTokens(created.block_config.format) # {}

\* A segment of the shape `<url>; rel="name"`: an http(s) url without
\* blanks, the literal `; rel="`, a name of word characters and the closing
\* quote.
WellFormed(seg) == seg.name # "" /\ seg = Link(seg.url, seg.name)

\* C12: for a header value of well-formed `<url>; rel="name"` segments
\* extract_links returns exactly the name -> url pairs of the segments, the
\* last segment of a name giving its url; the empty header value gives the
\* empty map; and when the names are distinct every order of the segments
\* gives the same map.
C12_ExactPairs ==
    (parsed.done /\ \A i \in DOMAIN header : WellFormed(header[i]))
    => /\ DOMAIN parsed.map = {header[i].name : i \in DOMAIN header}
       /\ \A i \in DOMAIN header :
             (\A j \in DOMAIN header : j > i => header[j].name # header[i].name)
             => parsed.map[header[i].name] = header[i].url
       /\ header = <<>> => parsed.map = <<>>
       /\ (\A i, j \in DOMAIN header :
               i # j => header[i].name # header[j].name)
          => \A p \in Permutations(DOMAIN header) :
                extract_links([i \in DOMAIN header |-> header[p[i]]]) = parsed.map

\* C12 witness: three well-formed segments, the first and the last of the
\* name "next" with different urls, parsed into two pairs.
C12_Witness ==
    /\ parsed.done
    /\ header = <<Link(UrlPage2, "next"), Link(UrlPage2, "last"),
                  Link(UrlPage3, "next")>>
    /\ parsed.map = [r \in {"next", "last"} |->
                        IF r = "next" THEN UrlPage3 ELSE UrlPage2]

\* The calls that sent a request, in order.
RequestCalls == SelectSeq([i \in DOMAIN results |-> i],
                          LAMBDA i : results[i].req)

\* The ways a request ends with a success status and a body that parses.
PageArrives == {"ok", "header"}

\* C13: no Link header makes a page fetch fail, be it absent, empty,
\* malformed or unreadable as text: when the last request was answered with
\* a success status and a body that parses, the call that sent it returned
\* no error and yielded the first item of the page, and the cursor is the
\* url of the header's well-formed "next" relation, or empty without one.
C13_HeaderNeverFails ==
    (/\ requests # <<>>
     /\ Last(requests).outcome \in PageArrives
     /\ Len(requests) <= Len(remote)
     /\ Last(requests).url = PageUrl(block.gh.api_server, Len(requests)))
    => LET q == Len(requests)
           call == results[Last(RequestCalls)]
       IN  /\ call.kind # "err"
           /\ remote[q] # <<>> =>
                 call.kind = "item" /\ call.reason = remote[q][1].reason
           /\ it.next_page_url =
                 IF Last(requests).outcome = "ok" /\ q < Len(remote)
                 THEN PageUrl(block.gh.api_server, q + 1)
                 ELSE ""

\* The number of the calls before call `c` that returned an item.
ItemsBefore(c) == Cardinality({i \in ItemCalls : i < c})

\* C14: pagination is lazy and pull-driven. Creating the handle sends no
\* request; a next() call sends a request only when the buffer is empty and
\* the cursor is not, at most one, to the cursor; in a poll without errors
\* every page url of the chain is requested exactly once, in chain order,
\* and page k + 1 only after every item of page k was yielded.
C14_LazyPull ==
    /\ [](/\ (pc = "folding" /\ results = <<>>) => requests = <<>>
          /\ (PollDone /\ AllServedOk /\ Last(results).kind = "none")
             => [q \in DOMAIN requests |-> requests[q].url]
                   = [q \in DOMAIN remote |-> PageUrl(block.gh.api_server, q)]
          /\ AllServedOk
             => \A k \in DOMAIN RequestCalls :
                   ItemsBefore(RequestCalls[k])
                      = Len(Concat(SubSeq(remote, 1, k - 1))))
    /\ [][(Len(results') = Len(results) + 1 /\ requests' # requests)
          => /\ it.notifications = <<>>
             /\ it.next_page_url # ""
             /\ Len(requests') = Len(requests) + 1
             /\ Last(requests').url = it.next_page_url]_vars

\* C15 as stated: every poll returns, whatever the remote, a remote whose
\* "next" relations form a cycle included: update() started from idle
\* eventually sets the text and returns.
C15_EveryPollReturns == (pc = "folding") ~> (pc = "idle")

\* C15 amended: every poll on a remote whose chain of "next" relations ends
\* returns; a poll that has not returned is on a remote whose relations
\* lead back to a page already served.
C15_PollOnEndingChainReturns == (pc = "folding") ~> (pc = "idle" \/ back # 0)

\* C15 witness: a poll over a chain of two pages that ends has folded two
\* items and returned.
C15_Witness ==
    /\ pc = "idle"
    /\ back = 0
    /\ Len(remote) = 2
    /\ it.next_page_url = ""
    /\ ret.kind = "ok"
    /\ aggregations["total"] = 2
    /\ block.text \in {"2", "2 (2)"}

\* What the instance `s` holds is what its own history gives an instance
\* polled alone: its requests went to the pages of its own api_server with
\* its own token, the items it was given are those of its own remote, the
\* aggregate is their fold, buffer and cursor are where its own last
\* request left them, and the text is that of its own last poll.
Alone(s) ==
    LET api == s.block.gh.api_server
        q == Len(s.requests)
        items == SelectSeq(s.results, IsItem)
        arrived == q > 0 /\ s.requests[q].outcome = "ok"
        moved == q > 0 /\ s.requests[q].outcome \in {"ok", "body"}
    IN  /\ s.pc \in {"idle", "folding"}
        /\ q <= Len(s.remote)
        /\ \A k \in 1..q :
              /\ s.requests[k].url = PageUrl(api, k)
              /\ s.requests[k].auth = "token " \o s.block.gh.token
        /\ Len(items) <= Len(Concat(s.remote))
        /\ \A i \in DOMAIN items : items[i].reason = Concat(s.remote)[i].reason
        /\ s.results # <<>> => s.aggregations = FoldOf(items)
        /\ (s.pc = "folding" /\ s.results = <<>>)
           => s.it = [notifications |-> <<>>,
                      next_page_url |-> PageUrl(api, 1)]
        /\ q > 0 =>
              /\ s.it.next_page_url =
                    IF ~moved THEN PageUrl(api, q)
                    ELSE IF q < Len(s.remote) THEN PageUrl(api, q + 1)
                    ELSE ""
              /\ s.it.notifications =
                    IF ~arrived THEN <<>>
                    ELSE LET served == Concat(SubSeq(s.remote, 1, q))
                         IN  SubSeq(served, Len(items) + 1, Len(served))
        /\ (s.pc = "idle" /\ s.results = <<>>) => s.block.text = "N/A"
        /\ (s.pc = "idle" /\ s.results # <<>>)
           => s.block.text =
                 IF Last(s.results).kind = "err" THEN "N/A"
                 ELSE render_static_str(s.block.format,
                                        values(s.aggregations)).s

Rendering(format, agg) ==
    IF format = default_format THEN Decimal(CountOf(agg, "total"))
    ELSE Decimal(CountOf(agg, "total")) \o " ("
            \o Decimal(CountOf(agg, "mention")) \o ")"

C18_SameInterval ==
    /\ pc \in {"idle", "folding"}
       => block.update_interval = created.block_config.interval
    /\ PollDone
       => /\ ret = OkSome(created.block_config.interval)
          /\ ENABLED UpdateBegin

\* C18 witness: a block configured with twice the default interval has
\* ended a poll whose second request timed out.
C18_Witness ==
    /\ PollDone
    /\ created.block_config.interval = 2 * DefaultInterval
    /\ Len(requests) = 2
    /\ Last(requests).outcome = "transport"
    /\ Last(results).kind = "err"
    /\ ret = OkSome(2 * DefaultInterval)

\* C19: every request of every poll, to the listing and to every "next"
\* url, carries `Authorization: token <credential>` with the credential
\* Github::new read from the environment, and the block holds that
\* credential unchanged whatever the polls and the responses were.
C19_TokenOnEveryRequest ==
    /\ pc \in {"idle", "folding"}
       => /\ created.env_token # NoToken
          /\ block.gh.token = created.env_token
    /\ \A q \in DOMAIN requests :
          requests[q].auth = "token " \o created.env_token

\* C19 witness: the second request of a poll, to the "next" url of page 1,
\* was sent with the token as the first was.
C19_Witness ==
    /\ pc = "folding"
    /\ Len(requests) = 2
    /\ requests[2].url = PageUrl(block.gh.api_server, 2)
    /\ requests[2].auth = "token s3cr3t"
    /\ requests[1].auth = "token s3cr3t"
    /\ block.text = "N/A"
    /\ Len(remote[2]) = 2

====
